---- MODULE Spec2Model ----
(***************************************************************************)
(* AMPES: the motion-to-event-series pipeline of src/src/AMPES.py.         *)
(*                                                                         *)
(* The script is modelled as a state machine whose program counter pc      *)
(* walks through the stages of the script in source order:                 *)
(*   "config"  roller/dwell logic check                      (l. 261-272)  *)
(*   "read"    g-code reading, one movement line per step     (l. 341-378) *)
(*   "init"    initialisation of the output arrays            (l. 383-388) *)
(*   "interp"  interpolation loop, one vertex pair per step   (l. 392-468) *)
(*   "dwell"   z_inc_arr and dwell adjustment                 (l. 470-487) *)
(*   "roller"  roller / wiper arrays                          (l. 491-512) *)
(*   "fluct"   power fluctuation                              (l. 514-518) *)
(*   "wmain"   primary event series file                      (l. 521-536) *)
(*   "wroller" roller event series file                       (l. 539-549) *)
(*   "wts"     time series file                               (l. 552-625) *)
(*   "done"    script end; "aborted" after exit(); "crashed" after an      *)
(*             uncaught Python exception (err names which).                *)
(*                                                                         *)
(* Numbers.  The script computes in floating point; the model computes the *)
(* same expressions exactly, on integers, by scaling: x_out and y_out hold *)
(* the coordinate times XScale = interval+1 (so that np.linspace's samples *)
(* are integers), t_out, time, t_roller and t_wiper hold the time times    *)
(* TScale = SpeedScale*(interval+1), where every configured speed divides  *)
(* SpeedScale.  z, power and the g-code values are unscaled.               *)
(*                                                                         *)
(* Python names that are assigned only on some paths (curr_f, group_idx,   *)
(* vel, ...) are unbound until then; `bound` is the set of such names that *)
(* are bound, and a read of an unbound name is a NameError.                *)
(***************************************************************************)
EXTENDS Integers, Sequences, FiniteSets, TLC

VARIABLES
    config,            \* the loaded configuration (l. 172-256), fixed for the run
    pc, err,           \* stage of the script; reason of an abort or a crash
    bound,             \* the conditionally assigned Python names that are bound
    x, y, z, f, z_posl, power, z_pos, curr_f, group_idx,        \* reader
    infill_power, contour_power, interlayer_dwell,
    infill_speed, contour_speed, vel,
    z_coord, j, i, time, x_out, y_out, z_out, power_out, t_out, \* interpolator
    z_inc_arr,                                                  \* dwell
    t_roller, z_roller, t_wiper, z_wiper,                       \* roller
    out_main, out_roller, out_ts,                               \* files written
    gcode,             \* history: the movement lines read so far
    jump_at,           \* history: index of the first of the two points appended
                       \* by each layer jump of the interpolation loop
    t_interp,          \* history: t_out as the interpolation loop left it
    power_in,          \* history: power_out as the interpolation loop left it
    first_run          \* history: what an earlier run of the script on the
                       \* same g-code file produced, for runs that are compared

vars == <<config, pc, err, bound, x, y, z, f, z_posl, power, z_pos, curr_f,
          group_idx, infill_power, contour_power, interlayer_dwell,
          infill_speed, contour_speed, vel, z_coord, j, i, time, x_out, y_out,
          z_out, power_out, t_out, z_inc_arr, t_roller, z_roller, t_wiper,
          z_wiper, out_main, out_roller, out_ts, gcode, jump_at, t_interp,
          power_in, first_run>>

readerVars == <<x, y, z, f, z_posl, power, z_pos, curr_f, group_idx>>
paramVars  == <<infill_power, contour_power, interlayer_dwell,
                infill_speed, contour_speed, vel>>
interpVars == <<z_coord, j, i, time, x_out, y_out, z_out, power_out, t_out>>
rollerVars == <<t_roller, z_roller, t_wiper, z_wiper>>
outVars    == <<out_main, out_roller, out_ts>>
interpHist == <<jump_at, t_interp, power_in, first_run>>
histVars   == <<gcode, jump_at, t_interp, power_in, first_run>>

----------------------------------------------------------------------------
(* Bounds of the model.                                                    *)

\* most X tokens (vertices) of a g-code file
MaxX == 3
\* most Z tokens of a g-code file
MaxZ == 4
\* largest configured `interval`
MaxInterval == 2
\* largest configured dwell time (w_dwell, interlayer_dwell) of the
\* configuration-check specification
MaxDwell == 2
\* most X and most Z tokens of a g-code file in the configuration-check
\* specification
MaxCfgTok == 2
MaxParseX == 3
MaxParseZ == 3
MaxDeviation == 2
MaxSamples == 3

----------------------------------------------------------------------------
(* Python sequences: 0-based indexing, negative indices, slices.           *)

\* s[k] for an index k >= 0
At(s, k) == s[k + 1]

\* whether s[k] raises no IndexError (negative k counts from the end)
PyIndexOK(s, k) == (0 - Len(s)) <= k /\ k < Len(s)

\* s[k] with Python's negative indices
PyAt(s, k) == IF k < 0 THEN s[Len(s) + k + 1] ELSE s[k + 1]

\* s[:-1]
DropLast(s) == SubSeq(s, 1, Len(s) - 1)

\* the first position (1-based) that the slice s[k:] covers
SliceStart(s, k) ==
    IF k < 0 THEN (IF Len(s) + k < 0 THEN 1 ELSE Len(s) + k + 1)
    ELSE IF k > Len(s) THEN Len(s) + 1 ELSE k + 1

\* [v]*n
Repeat(v, n) == [k \in 1..n |-> v]

SetMin(S) == CHOOSE m \in S : \A n \in S : m <= n

RECURSIVE SetProduct(_)
SetProduct(S) ==
    IF S = {} THEN 1 ELSE LET m == SetMin(S) IN m * SetProduct(S \ {m})

\* math.sqrt on the perfect squares the bounded inputs produce
Sqrt(n) == CHOOSE r \in 0..n : r * r = n

\* range(a, b)
Range(a, b) == a..(b - 1)

----------------------------------------------------------------------------
(* Configuration.                                                          *)

\* the speeds a configuration may name; each divides SpeedScale
Speeds == {1, 2}
SpeedScale == SetProduct(Speeds)

\* one section (infill or contour) of a layer group
Section(base, hasOut, out, pw) ==
    [base_speed |-> base, has_output_speed |-> hasOut, output_speed |-> out,
     power |-> pw]

\* one layer group; has_layers: whether the group has a 'layers' key
Group(hasLayers, lo, hi, inf, con, ild) ==
    [has_layers |-> hasLayers, layers |-> <<lo, hi>>, infill |-> inf,
     contour |-> con, interlayer_dwell |-> ild]

\* group_flag (l. 217-220)
GroupFlag(cfg) ==
    Len(cfg.layer_groups) > 1 \/ cfg.layer_groups[1].has_layers

\* intervals (l. 221): one range(first-1, last+1) per layer group
Intervals(cfg) ==
    [k \in 1..Len(cfg.layer_groups) |->
        Range(cfg.layer_groups[k].layers[1] - 1,
              cfg.layer_groups[k].layers[2] + 1)]

\* infill_f_val, contour_f_val (l. 228-229, 241-242)
InfillFVal(cfg)  == cfg.layer_groups[1].infill.base_speed * 60
ContourFVal(cfg) == cfg.layer_groups[1].contour.base_speed * 60

\* the optional output speed of a section (l. 248-256, 401-409)
SectionSpeed(sec) ==
    IF ~sec.has_output_speed THEN sec.base_speed ELSE sec.output_speed

\* the value Python's False has as a number and as an index
PyFalse == 0

\* a slip of GetIdxFromRanges: the last range holding num wins
GetIdxLast(num, ranges) ==
    LET hit == {k \in 1..Len(ranges) : num \in ranges[k]}
    IN  IF hit = {} THEN PyFalse
        ELSE (CHOOSE m \in hit : \A n \in hit : m >= n) - 1

\* get_idx_from_ranges (l. 108-112): the index of the first range holding
\* num, and False when no range holds it
GetIdxFromRanges(num, ranges) ==
    LET hit == {k \in 1..Len(ranges) : num \in ranges[k]}
    IN  IF hit = {} THEN PyFalse ELSE SetMin(hit) - 1

XScale(cfg) == cfg.interval + 1
TScale(cfg) == SpeedScale * (cfg.interval + 1)

----------------------------------------------------------------------------
(* G-code lines: a movement line is the sequence of its items that match   *)
(* `pattern` (l. 147).                                                     *)

Tok(k, v) == [k |-> k, v |-> v]

\* the letters `pattern` accepts at the head of an item (l. 147)
PatternLetters == {"X", "Y", "Z", "F", "E"}

\* an item of the split line that does not match `pattern`: a word of a
\* comment, `;` having been replaced by a space (l. 344)
Word(w) == [k |-> w, v |-> 0]

\* the capital letters an item holds: its head letter for a coordinate item
\* (its number holds digits, signs and `e` only), the letters of a word
Letters(item) ==
    IF item.k \in PatternLetters THEN {item.k}
    ELSE IF item.k = "TRAVEL" THEN {"T", "R", "A", "V", "E", "L"}
    ELSE IF item.k = "NEXT" THEN {"N", "E", "X", "T"}
    ELSE {}

\* "X" in "".join(line), "E" in "".join(line) (l. 366-367)
HasLetter(line, k) == \E n \in 1..Len(line) : k \in Letters(line[n])

\* The item loop of one line (l. 346-363) applied to the reader state r.
\* r.exc names the exception raised, r.brk that the loop was left by break.
RECURSIVE ScanItems(_, _, _)
ScanItems(items, r, cfg) ==
    IF items = <<>> \/ r.exc # "" \/ r.brk THEN r
    ELSE
      LET item == Head(items)
          rest == Tail(items)
      IN
      IF item.k = "X" THEN
          IF "curr_f" \notin r.bound
          THEN [r EXCEPT !.x = Append(r.x, item.v), !.exc = "NameError"]
          ELSE ScanItems(rest,
                   [r EXCEPT !.x = Append(r.x, item.v),
                             !.f = Append(r.f, r.curr_f),
                             !.z_pos = r.z_pos + 1], cfg)
      ELSE IF item.k = "Y" THEN
          ScanItems(rest, [r EXCEPT !.y = Append(r.y, item.v)], cfg)
      ELSE IF item.k = "Z" THEN
          LET zs  == Append(r.z, item.v)
              idx == GetIdxFromRanges(Len(zs) - 1, Intervals(cfg))
          IN
          IF GroupFlag(cfg) THEN
              IF idx = -1
              THEN [r EXCEPT !.z = zs, !.group_idx = idx,
                             !.bound = r.bound \cup {"group_idx"},
                             !.brk = TRUE]
              ELSE ScanItems(rest,
                       [r EXCEPT !.z = zs, !.group_idx = idx,
                                 !.bound = r.bound \cup {"group_idx"},
                                 !.z_posl = Append(r.z_posl, r.z_pos)], cfg)
          ELSE ScanItems(rest,
                   [r EXCEPT !.z = zs,
                             !.z_posl = Append(r.z_posl, r.z_pos)], cfg)
      ELSE IF item.k = "F" THEN
          ScanItems(rest, [r EXCEPT !.curr_f = item.v,
                                    !.bound = r.bound \cup {"curr_f"}], cfg)
      ELSE ScanItems(rest, r, cfg)

\* The reader state the item loop starts from.
ReaderState ==
    [x |-> x, y |-> y, z |-> z, f |-> f, z_posl |-> z_posl, z_pos |-> z_pos,
     curr_f |-> curr_f, group_idx |-> group_idx, bound |-> bound,
     exc |-> "", brk |-> FALSE]

----------------------------------------------------------------------------
(* Stops.                                                                  *)

\* The run ends here: exit() (p = "aborted") or an uncaught exception
\* (p = "crashed"); nothing else of the script runs.
StopKeep(p, e) ==
    /\ pc' = p
    /\ err' = e
    /\ UNCHANGED <<config, bound, readerVars, paramVars, interpVars,
                   z_inc_arr, rollerVars, outVars, interpHist>>

Stop(p, e) == StopKeep(p, e) /\ UNCHANGED gcode

----------------------------------------------------------------------------
(* Start of the run: the configuration is loaded (l. 172-256) and the      *)
(* arrays are empty (l. 280-289, 333-339).                                 *)

SingleGroupNames ==
    {"infill_power", "contour_power", "interlayer_dwell",
     "infill_speed", "contour_speed"}

\* no earlier run
NoRun ==
    [done |-> FALSE, gcode |-> <<>>, pc |-> "", x_out |-> <<>>,
     y_out |-> <<>>, z_out |-> <<>>, power_out |-> <<>>, t_out |-> <<>>,
     t_interp |-> <<>>, t_wiper |-> <<>>, z_wiper |-> <<>>,
     out_main |-> <<>>, out_roller |-> <<>>]

\* everything but the configuration, the stage and the output arrays
StartState ==
    /\ err = ""
    /\ bound = IF GroupFlag(config) THEN {} ELSE SingleGroupNames
    /\ x = <<>> /\ y = <<>> /\ z = <<>> /\ f = <<>>
    /\ z_posl = <<>> /\ power = <<>> /\ z_pos = 0
    /\ curr_f = 0 /\ group_idx = 0
    /\ infill_power =
         IF GroupFlag(config) THEN 0 ELSE config.layer_groups[1].infill.power
    /\ contour_power =
         IF GroupFlag(config) THEN 0 ELSE config.layer_groups[1].contour.power
    /\ interlayer_dwell =
         IF GroupFlag(config) THEN 0
         ELSE config.layer_groups[1].interlayer_dwell
    /\ infill_speed =
         IF GroupFlag(config) THEN 0
         ELSE SectionSpeed(config.layer_groups[1].infill)
    /\ contour_speed =
         IF GroupFlag(config) THEN 0
         ELSE SectionSpeed(config.layer_groups[1].contour)
    /\ vel = 0
    /\ z_coord = 0 /\ j = 0 /\ i = 0 /\ time = 0
    /\ z_inc_arr = <<>>
    /\ t_roller = <<>> /\ z_roller = <<>> /\ t_wiper = <<>> /\ z_wiper = <<>>
    /\ out_main = <<>> /\ out_roller = <<>> /\ out_ts = <<>>
    /\ gcode = <<>>
    /\ jump_at = <<>>
    /\ first_run = NoRun

InitWith(cfgs) ==
    /\ config \in cfgs
    /\ pc = "config"
    /\ StartState
    /\ x_out = <<>> /\ y_out = <<>> /\ z_out = <<>>
    /\ power_out = <<>> /\ t_out = <<>>
    /\ t_interp = <<>> /\ power_in = <<>>

----------------------------------------------------------------------------
(* Scheme validity (l. 200-203) and roller / dwell logic check             *)
(* (l. 261-272).                                                           *)

\* power_fluc_schemes (l. 141-145)
power_fluc_schemes == {"gaussian", "strict", "uniform"}

\* whether the scheme check calls exit() (l. 201-203)
SchemeError(cfg) ==
    IF cfg.power_fluctuation /\ cfg.scheme \notin power_fluc_schemes
    THEN "scheme" ELSE ""

\* a slip of RollerDwellError: only the first group's dwell is compared
RollerDwellFirst(cfg, ild) ==
    IF cfg.roller THEN
        IF cfg.dwell THEN
            IF cfg.w_dwell > cfg.layer_groups[1].interlayer_dwell
            THEN "w_dwell" ELSE ""
        ELSE "dwell_required"
    ELSE ""

\* whether the check calls exit(), and with which message
RollerDwellError(cfg, ild) ==
    IF cfg.roller THEN
        IF cfg.dwell THEN
            IF GroupFlag(cfg) THEN
                IF \E k \in 1..Len(cfg.layer_groups) :
                       cfg.w_dwell > cfg.layer_groups[k].interlayer_dwell
                THEN "w_dwell_all" ELSE ""
            ELSE IF cfg.w_dwell > ild THEN "w_dwell" ELSE ""
        ELSE "dwell_required"
    ELSE ""

ConfigCheck ==
    /\ pc = "config"
    /\ LET e == IF SchemeError(config) # "" THEN SchemeError(config)
                ELSE RollerDwellError(config, interlayer_dwell)
       IN  IF e # "" THEN Stop("aborted", e)
           ELSE /\ pc' = "read"
                /\ UNCHANGED <<config, err, bound, readerVars, paramVars,
                               interpVars, z_inc_arr, rollerVars, outVars,
                               histVars>>

----------------------------------------------------------------------------
(* G-code reading: the body of `for line in gcode_file` for one movement   *)
(* line (l. 342-378).                                                      *)

CountLetter(line, k) == Cardinality({n \in 1..Len(line) : line[n].k = k})

\* a slip of LinePower: a feed that is neither nominal value counts as travel
LinePowerLenient(line, cfg, r, ip, cp) ==
    IF HasLetter(line, "E") THEN
        LET ipw == IF GroupFlag(cfg)
                   THEN At(cfg.layer_groups, r.group_idx).infill.power ELSE ip
            cpw == IF GroupFlag(cfg)
                   THEN At(cfg.layer_groups, r.group_idx).contour.power ELSE cp
        IN  IF r.curr_f = InfillFVal(cfg) THEN [exit |-> FALSE, p |-> ipw]
            ELSE IF r.curr_f = ContourFVal(cfg) THEN [exit |-> FALSE, p |-> cpw]
            ELSE [exit |-> FALSE, p |-> 0]
    ELSE [exit |-> FALSE, p |-> 0]

\* the power the line appends (l. 367-378); "exit" when the F value is
\* neither nominal value
LinePower(line, cfg, r, ip, cp) ==
    IF HasLetter(line, "E") THEN
        LET ipw == IF GroupFlag(cfg)
                   THEN At(cfg.layer_groups, r.group_idx).infill.power ELSE ip
            cpw == IF GroupFlag(cfg)
                   THEN At(cfg.layer_groups, r.group_idx).contour.power ELSE cp
        IN  IF r.curr_f = InfillFVal(cfg) THEN [exit |-> FALSE, p |-> ipw]
            ELSE IF r.curr_f = ContourFVal(cfg) THEN [exit |-> FALSE, p |-> cpw]
            ELSE [exit |-> TRUE, p |-> 0]
    ELSE [exit |-> FALSE, p |-> 0]

ReadLine(line, maxX, maxZ) ==
    /\ pc = "read"
    /\ Len(x) + CountLetter(line, "X") <= maxX
    /\ Len(z) + CountLetter(line, "Z") <= maxZ
    /\ gcode' = Append(gcode, line)
    /\ LET r == ScanItems(line, ReaderState, config)
           assignReader(pw) ==
               /\ x' = r.x /\ y' = r.y /\ z' = r.z /\ f' = r.f
               /\ z_posl' = r.z_posl /\ z_pos' = r.z_pos
               /\ curr_f' = r.curr_f /\ group_idx' = r.group_idx
               /\ bound' = r.bound
               /\ power' = pw
       IN
       IF r.exc # "" THEN StopKeep("crashed", r.exc)
       ELSE IF GroupFlag(config) /\ "group_idx" \notin r.bound
            THEN StopKeep("crashed", "NameError")
       ELSE IF GroupFlag(config) /\ r.group_idx = -1 THEN
            \* break (l. 364-365): no further line is read
            /\ assignReader(power)
            /\ pc' = "init"
            /\ UNCHANGED <<config, err, paramVars, interpVars, z_inc_arr,
                           rollerVars, outVars, interpHist>>
       ELSE IF HasLetter(line, "X") THEN
            LET lp == LinePower(line, config, r, infill_power, contour_power)
            IN  IF lp.exit THEN StopKeep("aborted", "unexpected_F")
                ELSE /\ assignReader(Append(power, lp.p))
                     /\ IF GroupFlag(config) /\ HasLetter(line, "E")
                        THEN /\ infill_power' =
                                  At(config.layer_groups, r.group_idx).infill.power
                             /\ contour_power' =
                                  At(config.layer_groups, r.group_idx).contour.power
                        ELSE UNCHANGED <<infill_power, contour_power>>
                     /\ UNCHANGED <<config, pc, err, interlayer_dwell,
                                    infill_speed, contour_speed, vel,
                                    interpVars, z_inc_arr, rollerVars,
                                    outVars, interpHist>>
       ELSE /\ assignReader(power)
            /\ UNCHANGED <<config, pc, err, paramVars, interpVars, z_inc_arr,
                           rollerVars, outVars, interpHist>>

\* the file has no further line
EndOfFile ==
    /\ pc = "read"
    /\ pc' = "init"
    /\ UNCHANGED <<config, err, bound, readerVars, paramVars, interpVars,
                   z_inc_arr, rollerVars, outVars, histVars>>

----------------------------------------------------------------------------
(* Interpolation (l. 383-468).                                             *)

\* np.linspace(a, b, n), n >= 2; exact on the scaled values
Linspace(a, b, n) == [k \in 1..n |-> a + ((k - 1) * (b - a)) \div (n - 1)]

\* a slip of StartZ: the value of the first Z token
StartZFirst(zs) == At(zs, 0)

\* the height the series starts at: z[1], the value of the second Z token
\* (l. 383, 386)
StartZ(zs) == At(zs, 1)

\* initialisation of the output arrays (l. 383-388); with fewer than two
\* vertices the loop of l. 392 has no iteration
InterpInit ==
    /\ pc = "init"
    /\ IF Len(z) < 2 \/ Len(x) < 1 \/ Len(y) < 1
       THEN Stop("crashed", "IndexError")
       ELSE /\ z_coord' = StartZ(z)
            /\ j' = 2
            /\ x_out' = <<At(x, 0) * XScale(config)>>
            /\ y_out' = <<At(y, 0) * XScale(config)>>
            /\ z_out' = <<StartZ(z)>>
            /\ power_out' = <<0>>
            /\ t_out' = <<time>>
            /\ pc' = IF Len(x) > 1 THEN "interp" ELSE "dwell"
            /\ t_interp' = IF Len(x) > 1 THEN t_interp ELSE <<time>>
            /\ power_in' = IF Len(x) > 1 THEN power_in ELSE <<0>>
            /\ UNCHANGED <<config, err, bound, readerVars, paramVars, i, time,
                           z_inc_arr, rollerVars, outVars, gcode, jump_at,
                           first_run>>

\* the speeds of the group resolved for the iteration (l. 399-412)
GroupSpeeds(cfg, gi) ==
    LET lg == At(cfg.layer_groups, gi)
    IN  IF gi = 0
        THEN [infill |-> SectionSpeed(lg.infill),
              contour |-> SectionSpeed(lg.contour)]
        ELSE [infill |-> lg.infill.output_speed,
              contour |-> lg.contour.output_speed]

\* a slip of JumpPoints: both appended points carry the raised value
JumpPointsBoth(s, dz) == s \o <<s[Len(s)] + dz, s[Len(s)] + dz>>

\* a slip of JumpPoints: the raised point alone is appended
JumpPointsOne(s, dz) == s \o <<s[Len(s)] + dz>>

\* the two points of a layer jump appended to an output array (l. 458-465):
\* the last value and the last value plus dz
JumpPoints(s, dz) == s \o <<s[Len(s)], s[Len(s)] + dz>>

\* a slip of Concat: the shared point is kept
ConcatKeep(s, tmp) == s \o tmp

\* the segment's samples replace the last point of the array (l. 441-445)
Concat(s, tmp) == DropLast(s) \o tmp

\* whether the iteration ends with a layer jump (l. 452-453)
IsJump(n, jj, zposl) == jj < Len(zposl) /\ n = At(zposl, jj) - 1

\* a slip of DelT: the length times the speed
DelTTimes(d, v, cfg) == (d * v * SpeedScale) * XScale(cfg)

\* the traversal time of a segment of length d at speed v (l. 433), scaled
DelT(d, v, cfg) == (d * (SpeedScale \div v)) * XScale(cfg)

\* one iteration of `for i in range(1, len(x))` (l. 392-468)
InterpStep ==
    /\ pc = "interp"
    /\ LET n   == IF "i" \in bound THEN i + 1 ELSE 1
           gf  == GroupFlag(config)
           gi  == GetIdxFromRanges(j - 2, Intervals(config))
           sp  == IF gf THEN GroupSpeeds(config, gi)
                  ELSE [infill |-> infill_speed, contour |-> contour_speed]
           fn  == At(f, n)
           hit == fn = InfillFVal(config) \/ fn = ContourFVal(config)
           v   == IF fn = InfillFVal(config) THEN sp.infill
                  ELSE IF fn = ContourFVal(config) THEN sp.contour
                  ELSE vel
           del_x == At(x, n) - At(x, n - 1)
           del_y == At(y, n) - At(y, n - 1)
           del_d == Sqrt(del_x * del_x + del_y * del_y)
           del_t == DelT(del_d, v, config)
           np    == config.interval + 2
           xs == Concat(x_out, Linspace(At(x, n - 1) * XScale(config),
                                        At(x, n) * XScale(config), np))
           ys == Concat(y_out, Linspace(At(y, n - 1) * XScale(config),
                                        At(y, n) * XScale(config), np))
           zs == Concat(z_out, Repeat(z_coord, np))
           ps == Concat(power_out, Repeat(At(power, n), np))
           ts == Concat(t_out, Linspace(time, time + del_t, np))
           jump == IsJump(n, j, z_posl)
           last == n = Len(x) - 1
       IN
       IF gf /\ gi = -1 THEN
            \* break (l. 396-397)
            /\ pc' = "dwell"
            /\ i' = n
            /\ group_idx' = gi
            /\ bound' = bound \cup {"i", "group_idx"}
            /\ t_interp' = t_out
            /\ power_in' = power_out
            /\ UNCHANGED <<config, err, x, y, z, f, z_posl, power, z_pos,
                           curr_f, paramVars, z_coord, j, time, x_out, y_out,
                           z_out, power_out, t_out, z_inc_arr, rollerVars,
                           outVars, gcode, jump_at, first_run>>
       ELSE IF Len(y) <= n THEN Stop("crashed", "IndexError")
       ELSE IF ~hit /\ "vel" \notin bound THEN Stop("crashed", "NameError")
       ELSE IF v = 0 THEN Stop("crashed", "ZeroDivisionError")
       ELSE IF Len(power) <= n THEN Stop("crashed", "IndexError")
       ELSE
            /\ i' = n
            /\ bound' = bound \cup {"i"} \cup (IF hit THEN {"vel"} ELSE {})
                            \cup (IF gf THEN {"group_idx", "infill_speed",
                                              "contour_speed"} ELSE {})
            /\ group_idx' = IF gf THEN gi ELSE group_idx
            /\ infill_speed' = sp.infill
            /\ contour_speed' = sp.contour
            /\ vel' = v
            /\ time' = time + del_t
            /\ x_out' = IF jump THEN JumpPoints(xs, 0) ELSE xs
            /\ y_out' = IF jump THEN JumpPoints(ys, 0) ELSE ys
            /\ z_out' = IF jump THEN JumpPoints(zs, config.layer_height) ELSE zs
            /\ power_out' = IF jump THEN ps \o <<0, 0>> ELSE ps
            /\ t_out' = IF jump THEN JumpPoints(ts, 0) ELSE ts
            /\ z_coord' = IF jump THEN z_coord + config.layer_height ELSE z_coord
            /\ j' = IF jump THEN j + 1 ELSE j
            /\ jump_at' = IF jump THEN Append(jump_at, Len(xs)) ELSE jump_at
            /\ pc' = IF last THEN "dwell" ELSE "interp"
            /\ t_interp' = IF last THEN t_out' ELSE t_interp
            /\ power_in' = IF last THEN power_out' ELSE power_in
            /\ UNCHANGED <<config, err, x, y, z, f, z_posl, power, z_pos,
                           curr_f, infill_power, contour_power,
                           interlayer_dwell, z_inc_arr, rollerVars, outVars,
                           gcode, first_run>>

----------------------------------------------------------------------------
(* Layer jump indices and dwell adjustment (l. 470-487).                   *)

\* a slip of ZIncArr: every entry one less
ZIncArrBefore(zposl, interval) ==
    [k \in 1..(IF Len(zposl) > 2 THEN Len(zposl) - 2 ELSE 0) |->
        (At(zposl, k + 1) - 1) * (interval + 1) + ((k + 1) - 1) * 2 - 1]

\* a slip of ZIncArr: the time of the jump point stands for interval
ZIncArrOfTime(zposl, interval) ==
    [k \in 1..(IF Len(zposl) > 2 THEN Len(zposl) - 2 ELSE 0) |->
        (At(zposl, k + 1) - 1) * (At(t_out, Len(t_out) - 1) + 1)
            + ((k + 1) - 1) * 2]

\* z_inc_arr (l. 472)
ZIncArr(zposl, interval) ==
    [k \in 1..(IF Len(zposl) > 2 THEN Len(zposl) - 2 ELSE 0) |->
        (At(zposl, k + 1) - 1) * (interval + 1) + ((k + 1) - 1) * 2]

\* a slip of ShiftFrom: t[k] += d, the sample at k alone
ShiftOnly(t, k, d) ==
    [n \in 1..Len(t) |-> IF n = SliceStart(t, k) THEN t[n] + d ELSE t[n]]

\* t[k:] += d
ShiftFrom(t, k, d) ==
    [n \in 1..Len(t) |-> IF n >= SliceStart(t, k) THEN t[n] + d ELSE t[n]]

\* the dwell of the iteration i of the dwell loop (l. 480-484), unscaled
DwellOf(cfg, n, ild) ==
    IF GroupFlag(cfg)
    THEN At(cfg.layer_groups,
            GetIdxFromRanges(n, Intervals(cfg))).interlayer_dwell
    ELSE ild

\* the dwell loop (l. 479-485) from iteration n on
RECURSIVE DwellLoop(_, _, _, _, _)
DwellLoop(t, n, zinc, cfg, ild) ==
    IF n >= Len(zinc) THEN t
    ELSE IF GroupFlag(cfg) /\ GetIdxFromRanges(n, Intervals(cfg)) = -1 THEN t
    ELSE DwellLoop(ShiftFrom(t, At(zinc, n), DwellOf(cfg, n, ild) * TScale(cfg)),
                   n + 1, zinc, cfg, ild)

\* the whole series moved by the roller time (l. 477-478)
RollerOffset(t, cfg) ==
    IF cfg.roller THEN [n \in 1..Len(t) |-> t[n] + cfg.w_dwell * TScale(cfg)]
    ELSE t

DwellStage ==
    /\ pc = "dwell"
    /\ LET zinc == ZIncArr(z_posl, config.interval)
           n    == Len(zinc)
           gf   == GroupFlag(config)
       IN
       /\ z_inc_arr' = IF config.dwell \/ config.time_series
                       THEN zinc ELSE z_inc_arr
       /\ IF config.dwell
          THEN /\ t_out' = DwellLoop(RollerOffset(t_out, config), 0, zinc,
                                     config, interlayer_dwell)
               /\ i' = IF n > 0 THEN n - 1 ELSE i
               /\ group_idx' =
                    IF gf /\ n > 0
                    THEN GetIdxFromRanges(n - 1, Intervals(config))
                    ELSE group_idx
               /\ interlayer_dwell' =
                    IF gf /\ n > 0 THEN DwellOf(config, n - 1, interlayer_dwell)
                    ELSE interlayer_dwell
               /\ bound' = bound \cup {"z_inc_arr"}
                             \cup (IF n > 0 THEN {"i"} ELSE {})
                             \cup (IF gf /\ n > 0
                                   THEN {"group_idx", "interlayer_dwell"}
                                   ELSE {})
          ELSE /\ UNCHANGED <<t_out, i, group_idx, interlayer_dwell>>
               /\ bound' = IF config.time_series
                           THEN bound \cup {"z_inc_arr"} ELSE bound
       /\ pc' = "roller"
       /\ UNCHANGED <<config, err, x, y, z, f, z_posl, power, z_pos, curr_f,
                      infill_power, contour_power, infill_speed,
                      contour_speed, vel, z_coord, j, time, x_out, y_out,
                      z_out, power_out, rollerVars, outVars, histVars>>

----------------------------------------------------------------------------
(* Roller / wiper arrays (l. 491-512).                                     *)

\* `for i in z_inc_arr` (l. 495-498) from position n (1-based) on;
\* r = [t, z, exc]
RECURSIVE RollerLoop(_, _, _, _, _)
RollerLoop(r, n, zinc, t, zo) ==
    IF n > Len(zinc) \/ r.exc # "" THEN r
    ELSE LET e == zinc[n]
         IN  IF ~PyIndexOK(t, e) \/ ~PyIndexOK(zo, e + 2)
             THEN [r EXCEPT !.exc = "IndexError"]
             ELSE RollerLoop([r EXCEPT !.t = Append(r.t, PyAt(t, e)),
                                       !.z = Append(r.z, PyAt(zo, e + 2))],
                             n + 1, zinc, t, zo)

\* a slip of TWiper: the window opens at the anchor, (t, t + w_dwell)
TWiperAfter(troller, w) ==
    [k \in 1..(2 * (Len(troller) - 1)) |->
        IF k % 2 = 1 THEN troller[(k + 1) \div 2]
        ELSE troller[k \div 2] + w]

\* t_wiper (l. 506, 509): the pair (t - w_dwell, t) of every entry of
\* t_roller but the last
TWiper(troller, w) ==
    [k \in 1..(2 * (Len(troller) - 1)) |->
        IF k % 2 = 1 THEN troller[(k + 1) \div 2] - w
        ELSE troller[k \div 2]]

\* z_wiper (l. 507, 510): every entry of z_roller twice
ZWiper(zroller) ==
    [k \in 1..(2 * Len(zroller)) |-> zroller[(k + 1) \div 2]]

RollerStage ==
    /\ pc = "roller"
    /\ IF ~config.roller
       THEN /\ pc' = "fluct"
            /\ UNCHANGED <<config, err, bound, readerVars, paramVars,
                           interpVars, z_inc_arr, rollerVars, outVars,
                           histVars>>
       ELSE
         LET r    == RollerLoop([t |-> <<At(t_out, 0)>>, z |-> <<>>, exc |-> ""],
                                1, z_inc_arr, t_out, z_out)
             n    == Len(z_inc_arr)
             iEnd == IF n > 0 THEN z_inc_arr[n] ELSE i
             tr   == Append(r.t, PyAt(t_out, iEnd))
             zr   == <<At(z_out, 0)>> \o r.z
         IN
         IF r.exc # "" THEN Stop("crashed", r.exc)
         ELSE IF n = 0 /\ "i" \notin bound THEN Stop("crashed", "NameError")
         ELSE IF ~PyIndexOK(t_out, iEnd) THEN Stop("crashed", "IndexError")
         ELSE /\ t_roller' = tr
              /\ z_roller' = zr
              /\ t_wiper' = IF config.dwell
                            THEN TWiper(tr, config.w_dwell * TScale(config))
                            ELSE t_wiper
              /\ z_wiper' = IF config.dwell THEN ZWiper(zr) ELSE z_wiper
              /\ i' = iEnd
              /\ pc' = "fluct"
              /\ UNCHANGED <<config, err, bound, readerVars, paramVars,
                             z_coord, j, time, x_out, y_out, z_out, power_out,
                             t_out, z_inc_arr, outVars, histVars>>

----------------------------------------------------------------------------
(* Power fluctuation (l. 28-57, 514-518).                                  *)

\* the values one draw of the generator can take, per scheme, as whole
\* numbers: rng.normal (l. 43), rng.integers(-1, 2) (l. 47) and
\* rng.uniform(-1, 1) (l. 51)
Draws(type) ==
    IF type = "gaussian" THEN {-2, -1, 0, 1, 2}
    ELSE IF type = "strict" THEN {-1, 0, 1}
    ELSE IF type = "uniform" THEN {-1, 0}
    ELSE {0}

\* a slip of MaskZeros: the mask is left out
MaskNothing(vals, arr) == vals

\* vals[input_arr==0] = 0 (l. 45, 49, 53); input_arr is the ndarray
\* power_out (l. 387, 516), so input_arr==0 is the elementwise mask
MaskZeros(vals, arr) ==
    [k \in 1..Len(arr) |-> IF arr[k] = 0 THEN 0 ELSE vals[k]]

\* perturb(input_arr, dev, type) (l. 28-57) for the draws rnd of the
\* generator, one per sample
Perturb(arr, dev, type, rnd) ==
    LET scaled == [k \in 1..Len(arr) |-> rnd[k] * dev]
        vals   == IF type \in {"gaussian", "strict", "uniform"}
                  THEN MaskZeros(scaled, arr)
                  ELSE [k \in 1..Len(arr) |-> 0]
    IN  [k \in 1..Len(arr) |-> arr[k] + vals[k]]

\* a call of perturb with any scheme tag, the tags of no scheme included
SchemeTags == power_fluc_schemes \cup {"none", ""}

PerturbCall ==
    /\ pc = "fluct"
    /\ \E type \in SchemeTags :
         \E rnd \in [1..Len(power_out) -> Draws(type)] :
             power_out' = Perturb(power_out, config.deviation, type, rnd)
    /\ pc' = "returned"
    /\ UNCHANGED <<config, err, bound, readerVars, paramVars, z_coord, j, i,
                   time, x_out, y_out, z_out, t_out, z_inc_arr, rollerVars,
                   outVars, histVars>>

FluctStage ==
    /\ pc = "fluct"
    /\ IF config.power_fluctuation
       THEN \E rnd \in [1..Len(power_out) -> Draws(config.scheme)] :
                power_out' = Perturb(power_out, config.deviation,
                                     config.scheme, rnd)
       ELSE UNCHANGED power_out
    /\ pc' = "wmain"
    /\ UNCHANGED <<config, err, bound, readerVars, paramVars, z_coord, j, i,
                   time, x_out, y_out, z_out, t_out, z_inc_arr, rollerVars,
                   outVars, histVars>>

----------------------------------------------------------------------------
(* Output files (l. 520-549).  A written number is the value rounded to    *)
(* its precision, held as the integer value * 10^precision.                *)

RECURSIVE Pow10(_)
Pow10(n) == IF n = 0 THEN 1 ELSE 10 * Pow10(n - 1)

\* round(num/den, prec) (round half to even), as an integer number of
\* 10^-prec; den > 0
Round(num, den, prec) ==
    LET m == num * Pow10(prec)
        q == m \div den
        r == m % den
    IN  IF 2 * r > den THEN q + 1
        ELSE IF 2 * r < den THEN q
        ELSE IF q % 2 = 0 THEN q ELSE q + 1

\* es_precision (l. 191-194) and the precision of z (l. 526-527)
EsPrecision == 6
ZPrecision == 3

\* one row of the primary event series (l. 526-527)
MainRow(cfg, t, xv, yv, zv, pw) ==
    <<Round(t, TScale(cfg), EsPrecision),
      Round(xv + cfg.xorg_shift * XScale(cfg), XScale(cfg), EsPrecision),
      Round(yv + cfg.yorg_shift * XScale(cfg), XScale(cfg), EsPrecision),
      Round(zv - cfg.substrate + cfg.zorg_shift, 1, ZPrecision),
      Round(pw, 1, EsPrecision)>>

WriteMain ==
    /\ pc = "wmain"
    /\ out_main' = [k \in 1..Len(t_out) |->
                      MainRow(config, t_out[k], x_out[k], y_out[k], z_out[k],
                              power_out[k])]
    /\ i' = IF Len(t_out) > 0 THEN Len(t_out) - 1 ELSE i
    /\ bound' = IF Len(t_out) > 0 THEN bound \cup {"i"} ELSE bound
    /\ pc' = "wroller"
    /\ UNCHANGED <<config, err, readerVars, paramVars, z_coord, j, time,
                   x_out, y_out, z_out, power_out, t_out, z_inc_arr,
                   rollerVars, out_roller, out_ts, histVars>>

\* a slip of RollerRow: the states of the even and the odd rows exchanged
RollerRowFlipped(cfg, k, t, zv) ==
    <<Round(t, TScale(cfg), EsPrecision),
      IF k % 2 = 0 THEN -90 ELSE 90,
      180,
      Round(zv - cfg.substrate + cfg.zorg_shift, 1, ZPrecision),
      IF k % 2 = 0 THEN 0 ELSE 1>>

\* one row of the roller event series (l. 544-549); k is the 0-based row
RollerRow(cfg, k, t, zv) ==
    <<Round(t, TScale(cfg), EsPrecision),
      IF k % 2 = 0 THEN -90 ELSE 90,
      180,
      Round(zv - cfg.substrate + cfg.zorg_shift, 1, ZPrecision),
      IF k % 2 = 0 THEN 1 ELSE 0>>

WriteRoller ==
    /\ pc = "wroller"
    /\ IF config.roller
       THEN /\ out_roller' = [k \in 1..Len(z_wiper) |->
                                RollerRow(config, k - 1, t_wiper[k], z_wiper[k])]
            /\ i' = IF Len(z_wiper) > 0 THEN Len(z_wiper) - 1 ELSE i
       ELSE UNCHANGED <<out_roller, i>>
    /\ pc' = "wts"
    /\ UNCHANGED <<config, err, bound, readerVars, paramVars, z_coord, j,
                   time, x_out, y_out, z_out, power_out, t_out, z_inc_arr,
                   rollerVars, out_main, out_ts, histVars>>

----------------------------------------------------------------------------
(* Time series file (l. 552-625).                                          *)

\* ts_precision (l. 195-198)
TsPrecision == 2

TsRound(cfg, t) == Round(t, TScale(cfg), TsPrecision)

\* int(a/b) and .astype(int): the quotient cut toward zero; b > 0
TruncDiv(a, b) == IF a >= 0 THEN a \div b ELSE 0 - ((0 - a) \div b)

\* `for count, i in enumerate(range(a, 0, -1)): if power_out[i] != 0: break`
\* (l. 561-563, 595-598): ran tells whether the loop had an iteration (count
\* is assigned only then)
SeekBack(a, p) ==
    IF a <= 0 THEN [ran |-> FALSE, count |-> 0, exc |-> ""]
    ELSE IF a >= Len(p) THEN [ran |-> TRUE, count |-> 0, exc |-> "IndexError"]
    ELSE LET hits == {k \in 0..(a - 1) : At(p, a - k) # 0}
         IN  [ran |-> TRUE,
              count |-> IF hits = {} THEN a - 1 ELSE SetMin(hits),
              exc |-> ""]

\* `for start_count, j in enumerate(range(a, len(power_out)))` with the same
\* body (l. 582-585)
SeekFwd(a, p) ==
    IF a >= Len(p) THEN [ran |-> FALSE, count |-> 0, exc |-> ""]
    ELSE IF a < 0 - Len(p)
         THEN [ran |-> TRUE, count |-> 0, exc |-> "IndexError"]
    ELSE LET hits == {k \in 0..(Len(p) - 1 - a) : PyAt(p, a + k) # 0}
         IN  [ran |-> TRUE,
              count |-> IF hits = {} THEN Len(p) - 1 - a ELSE SetMin(hits),
              exc |-> ""]

\* sample_inds[1:-1] (l. 567-575, 608-613) for n = time_series_sample_points
SampleInds(lo, hi, n) ==
    IF n <= 1 THEN <<>>
    ELSE [k \in 1..n |-> TruncDiv(lo * (n + 1) + k * (hi - lo), n + 1)]

\* writerow of t_out[ind] for every ind of inds, until one raises
RECURSIVE EmitAt(_, _, _, _)
EmitAt(r, inds, t, cfg) ==
    IF inds = <<>> \/ r.exc # "" THEN r
    ELSE IF ~PyIndexOK(t, Head(inds)) THEN [r EXCEPT !.exc = "IndexError"]
    ELSE EmitAt([r EXCEPT !.rows = Append(r.rows,
                                          TsRound(cfg, PyAt(t, Head(inds))))],
                Tail(inds), t, cfg)

\* the rows up to "first layer complete" (l. 557-577)
TsFirst(cfg, zinc, p, t, tw) ==
    LET r0 == [rows |-> (IF cfg.roller THEN <<TsRound(cfg, At(tw, 0))>>
                         ELSE <<>>) \o <<TsRound(cfg, At(t, 0))>>,
               exc |-> ""]
    IN
    IF Len(zinc) = 0 THEN [r0 EXCEPT !.exc = "IndexError"]
    ELSE
      LET a  == At(zinc, 0)
          sb == SeekBack(a, p)
          fe == a - sb.count + 1
      IN
      IF sb.exc # "" THEN [r0 EXCEPT !.exc = sb.exc]
      ELSE IF ~sb.ran THEN [r0 EXCEPT !.exc = "NameError"]
      ELSE EmitAt(EmitAt(r0,
                         SampleInds(0, fe, cfg.time_series_sample_points),
                         t, cfg),
                  <<fe>>, t, cfg)

\* the loop over the layer jumps (l. 579-623) from iteration k on;
\* r = [rows, exc, sc, scb, ec, ecb]: start_count and end_count with whether
\* they are bound
RECURSIVE TsLoop(_, _, _, _, _, _, _, _)
TsLoop(r, k, cfg, zinc, p, t, tw, nx) ==
    IF k >= Len(zinc) \/ r.exc # "" THEN r
    ELSE
      LET a    == At(zinc, k)
          sf   == SeekFwd(a, p)
          sc   == IF sf.ran THEN sf.count ELSE r.sc
          scb  == sf.ran \/ r.scb
          start_ind == a + sc
          seek == IF k < Len(zinc) - 1 THEN At(zinc, k + 1) ELSE nx - 1
          sb   == SeekBack(seek, p)
          ec   == IF sb.ran THEN sb.count ELSE r.ec
          ecb  == sb.ran \/ r.ecb
          end_ind == IF ec # 0 THEN seek - ec + 1 ELSE seek
          r1   == [r EXCEPT !.sc = sc, !.scb = scb, !.ec = ec, !.ecb = ecb]
          head == IF cfg.roller THEN <<(k + 1) * 2>> ELSE <<>>
      IN
      IF sf.exc # "" THEN [r EXCEPT !.exc = sf.exc]
      ELSE IF ~scb THEN [r EXCEPT !.exc = "NameError"]
      ELSE IF ~PyIndexOK(t, start_ind) THEN [r EXCEPT !.exc = "IndexError"]
      ELSE IF sb.exc # "" THEN [r EXCEPT !.exc = sb.exc]
      ELSE IF ~ecb THEN [r EXCEPT !.exc = "NameError"]
      ELSE IF ~PyIndexOK(t, end_ind) THEN [r EXCEPT !.exc = "IndexError"]
      ELSE TsLoop(
             EmitAt(
               EmitAt(
                 EmitAt(EmitAt(r1, head, tw, cfg), <<start_ind>>, t, cfg),
                 SampleInds(start_ind, end_ind, cfg.time_series_sample_points),
                 t, cfg),
               <<end_ind>>, t, cfg),
             k + 1, cfg, zinc, p, t, tw, nx)

\* all rows of the time series, and the exception that ended the writing
TsRows(cfg, zinc, p, t, tw, nx) ==
    LET r0 == TsFirst(cfg, zinc, p, t, tw)
    IN  TsLoop([rows |-> r0.rows, exc |-> r0.exc, sc |-> 0, scb |-> FALSE,
                ec |-> 0, ecb |-> FALSE],
               0, cfg, zinc, p, t, tw, nx)

WriteTimeSeries ==
    /\ pc = "wts"
    /\ IF ~config.time_series
       THEN /\ pc' = "done"
            /\ UNCHANGED <<err, out_ts>>
       ELSE LET r == TsRows(config, z_inc_arr, power_out, t_out, t_wiper,
                            Len(x_out))
            IN  /\ out_ts' = r.rows
                /\ pc' = IF r.exc # "" THEN "crashed" ELSE "done"
                /\ err' = r.exc
    /\ UNCHANGED <<config, bound, readerVars, paramVars, interpVars,
                   z_inc_arr, rollerVars, out_main, out_roller, histVars>>

----------------------------------------------------------------------------
(* The bounded inputs: configurations and movement lines.                  *)

Cfg(interval, dwell, roller, w, ts, tsp, groups) ==
    [interval |-> interval, layer_height |-> 2, substrate |-> 1,
     xorg_shift |-> 1, yorg_shift |-> 0, zorg_shift |-> 0,
     dwell |-> dwell, roller |-> roller, w_dwell |-> w,
     power_fluctuation |-> FALSE, deviation |-> 1, scheme |-> "strict",
     time_series |-> ts, time_series_sample_points |-> tsp,
     layer_groups |-> groups]

\* a single layer group without a 'layers' key: nominal infill speed 1
\* (F60), output speed v, nominal contour speed 2 (F120)
OneGroup(v, ild) ==
    <<Group(FALSE, 0, 0, Section(1, TRUE, v, 2), Section(2, FALSE, 0, 1), ild)>>

\* two layer groups with the layers [1,1] and [2,2], declared in ascending
\* (up) or in descending order
GroupLow(ild)  == Group(TRUE, 1, 1, Section(1, TRUE, 1, 2),
                        Section(2, TRUE, 2, 1), ild)
GroupHigh(ild) == Group(TRUE, 2, 2, Section(1, TRUE, 2, 3),
                        Section(2, TRUE, 1, 1), ild)
TwoGroups(up, ildLow, ildHigh) ==
    IF up THEN <<GroupLow(ildLow), GroupHigh(ildHigh)>>
    ELSE <<GroupHigh(ildHigh), GroupLow(ildLow)>>

\* (dwell, roller, w_dwell) of the configurations that pass the check
DwellModes == {<<FALSE, FALSE, 0>>, <<TRUE, FALSE, 0>>, <<TRUE, TRUE, 1>>}

MainConfigs ==
    {Cfg(n, m[1], m[2], m[3], FALSE, 0, OneGroup(v, 2)) :
        n \in 0..MaxInterval, m \in DwellModes, v \in Speeds}
    \cup
    {Cfg(n, TRUE, r, 1, FALSE, 0, TwoGroups(up, 2, 3)) :
        n \in 0..MaxInterval, r \in BOOLEAN, up \in BOOLEAN}

\* "G1 Z0", "G1 F60 X0 Y0" (a travel move at the nominal infill feed) and
\* "G1 X1 Y0 E1" (a depositing move at the feed in force)
LineZ == <<Tok("Z", 0)>>
LineT == <<Tok("F", 60), Tok("X", 0), Tok("Y", 0)>>
LineD == <<Tok("X", 1), Tok("Y", 0), Tok("E", 1)>>
MainLines == {LineZ, LineT, LineD}

----------------------------------------------------------------------------
(* The run of the script on the bounded inputs.                            *)

Init == InitWith(MainConfigs)

Next ==
    \/ ConfigCheck
    \/ \E line \in MainLines : ReadLine(line, MaxX, MaxZ)
    \/ EndOfFile
    \/ InterpInit
    \/ InterpStep
    \/ DwellStage
    \/ RollerStage
    \/ FluctStage
    \/ WriteMain
    \/ WriteRoller
    \/ WriteTimeSeries

Spec == Init /\ [][Next]_vars

----------------------------------------------------------------------------
(* The run on every combination of dwell, roller, w_dwell and the groups'  *)
(* interlayer dwells, with a short program.                                *)

ConfigConfigs ==
    {Cfg(0, d, r, w, FALSE, 0, OneGroup(1, a)) :
        d \in BOOLEAN, r \in BOOLEAN, w \in 0..MaxDwell, a \in 0..MaxDwell}
    \cup
    {Cfg(0, d, r, w, FALSE, 0, TwoGroups(TRUE, a, b)) :
        d \in BOOLEAN, r \in BOOLEAN, w \in 0..MaxDwell,
        a \in 0..MaxDwell, b \in 0..MaxDwell}

InitConfig == InitWith(ConfigConfigs)

NextConfig ==
    \/ ConfigCheck
    \/ \E line \in MainLines : ReadLine(line, MaxCfgTok, MaxCfgTok)
    \/ EndOfFile
    \/ InterpInit
    \/ InterpStep
    \/ DwellStage
    \/ RollerStage
    \/ FluctStage
    \/ WriteMain
    \/ WriteRoller
    \/ WriteTimeSeries

SpecConfig == InitConfig /\ [][NextConfig]_vars

----------------------------------------------------------------------------
(* The run on programs with contour moves, feeds that are neither nominal  *)
(* value, and an F token after the X token of its line.                    *)

\* "G1 F120 X2 Y0 E1", "G1 F30 X0 Y0", "G1 X1 Y0 E1 F30" and
\* "G1 F60 X0 Y0 ;TRAVEL"
LineC  == <<Tok("F", 120), Tok("X", 2), Tok("Y", 0), Tok("E", 1)>>
LineTF == <<Tok("F", 30), Tok("X", 0), Tok("Y", 0)>>
LineDF == <<Tok("X", 1), Tok("Y", 0), Tok("E", 1), Tok("F", 30)>>
LineTC == <<Tok("F", 60), Tok("X", 0), Tok("Y", 0), Word("TRAVEL")>>
ParseLines == MainLines \cup {LineC, LineTF, LineDF, LineTC}

ParseConfigs ==
    {Cfg(1, TRUE, TRUE, 1, TRUE, 2, OneGroup(2, 2)),
     Cfg(1, TRUE, TRUE, 1, TRUE, 2, TwoGroups(TRUE, 2, 3)),
     Cfg(0, FALSE, FALSE, 0, TRUE, 2, OneGroup(1, 2)),
     Cfg(0, FALSE, FALSE, 0, FALSE, 0, TwoGroups(FALSE, 2, 3))}

InitParse == InitWith(ParseConfigs)

NextParse ==
    \/ ConfigCheck
    \/ \E line \in ParseLines : ReadLine(line, MaxParseX, MaxParseZ)
    \/ EndOfFile
    \/ InterpInit
    \/ InterpStep
    \/ DwellStage
    \/ RollerStage
    \/ FluctStage
    \/ WriteMain
    \/ WriteRoller
    \/ WriteTimeSeries

SpecParse == InitParse /\ [][NextParse]_vars

----------------------------------------------------------------------------
(* perturb applied to bounded power arrays: by the script (l. 516) and     *)
(* with any scheme tag.                                                    *)

\* the powers of OneGroup, and 0 for travel moves and layer jumps
PowerLevels == {0, 1, 2}

PerturbConfigs ==
    {[Cfg(0, FALSE, FALSE, 0, FALSE, 0, OneGroup(1, 2))
        EXCEPT !.power_fluctuation = TRUE, !.deviation = d, !.scheme = s] :
        d \in 1..MaxDeviation, s \in power_fluc_schemes}

InitPerturb ==
    /\ config \in PerturbConfigs
    /\ pc = "fluct"
    /\ StartState
    /\ \E n \in 0..MaxSamples :
         /\ power_out \in [1..n -> PowerLevels]
         /\ x_out = Repeat(0, n) /\ y_out = Repeat(0, n)
         /\ z_out = Repeat(0, n) /\ t_out = Repeat(0, n)
         /\ t_interp = Repeat(0, n)
    /\ power_in = power_out

NextPerturb ==
    \/ FluctStage
    \/ PerturbCall

SpecPerturb == InitPerturb /\ [][NextPerturb]_vars

----------------------------------------------------------------------------
(* Properties of the primary event series.                                 *)

PostDwell  == {"roller", "fluct", "wmain", "wroller", "wts", "done"}
PostInterp == {"dwell"} \cup PostDwell

RECURSIVE SumSeq(_)
SumSeq(s) == IF s = <<>> THEN 0 ELSE Head(s) + SumSeq(Tail(s))

\* C1: in the final primary event series (after interpolation, the roller
\* offset and all dwell shifts) timestamps are non-decreasing:
\* t[i] <= t[i+1] for every index i.
C1_Monotonic ==
    pc \in PostDwell =>
        \A k \in 1..(Len(t_out) - 1) : t_out[k] <= t_out[k + 1]

\* a finished run with the roller offset, a dwell shift at a layer jump
\* and time advancing
C1_Witness ==
    /\ pc = "done"
    /\ config.roller
    /\ Len(jump_at) >= 1
    /\ Len(z_inc_arr) >= 1
    /\ \E k \in 1..(Len(t_out) - 1) : t_out[k] < t_out[k + 1]

\* whether the layer index n lies in no configured range
OutOfRange(cfg, n) == \A k \in 1..Len(Intervals(cfg)) : n \notin Intervals(cfg)[k]

\* the number of Z tokens in the first n lines read
RECURSIVE ZTokens(_, _)
ZTokens(lines, n) ==
    IF n <= 0 THEN 0
    ELSE CountLetter(lines[n], "Z") + ZTokens(lines, n - 1)

\* C2: with layer grouping active, when a Z token yields a layer index that
\* lies in no configured range, the parser reads no further line, and no
\* event point of that layer or of a later one appears in the output.
C2_Truncation ==
    LET out == {n \in 0..(Len(z) - 1) : OutOfRange(config, n)}
        n0  == SetMin(out)
    IN  (GroupFlag(config) /\ out # {}) =>
            /\ ZTokens(gcode, Len(gcode) - 1) <= n0
            /\ \A k \in 1..Len(z_out) :
                   z_out[k] < At(z, 1) + (n0 - 1) * config.layer_height

\* the dwell, scaled, that the dwell loop adds at each entry of z_inc_arr
JumpDwells(cfg, zinc) ==
    [k \in 1..Len(zinc) |->
        DwellOf(cfg, k - 1, cfg.layer_groups[1].interlayer_dwell) * TScale(cfg)]

\* C3: with dwell enabled, after dwell injection every timestamp equals its
\* interpolated value plus the initial offset (w_dwell with the roller,
\* otherwise 0) plus the sum of the dwells of every layer jump whose
\* LayerJumpIndex is <= the index of the point.
C3_DwellShift ==
    (pc \in PostDwell /\ config.dwell) =>
        \A n \in 1..Len(t_out) :
            t_out[n] =
                t_interp[n]
                + (IF config.roller THEN config.w_dwell * TScale(config) ELSE 0)
                + SumSeq([k \in 1..Len(z_inc_arr) |->
                            IF z_inc_arr[k] <= n - 1
                            THEN JumpDwells(config, z_inc_arr)[k] ELSE 0])

\* C4: at every layer jump, the two jump points of the primary series have
\* the same x and the same y, and z of the second exceeds z of the first by
\* exactly layer_height.
C4_JumpGeometry ==
    pc \in PostInterp =>
        \A k \in 1..Len(jump_at) :
            LET a == jump_at[k]
            IN  /\ At(x_out, a + 1) = At(x_out, a)
                /\ At(y_out, a + 1) = At(y_out, a)
                /\ At(z_out, a + 1) = At(z_out, a) + config.layer_height

\* a finished run with two layer jumps, the first followed by a segment
C4_Witness ==
    /\ pc = "done"
    /\ Len(jump_at) = 2
    /\ jump_at[2] > jump_at[1] + 2

\* C5: the power at both points of every layer jump of the unperturbed
\* primary series is 0.
C5_ZeroPowerAtJump ==
    pc \in PostInterp =>
        \A k \in 1..Len(jump_at) :
            /\ At(power_in, jump_at[k]) = 0
            /\ At(power_in, jump_at[k] + 1) = 0

\* C9: with interval = N, a processed vertex pair that does not end a layer
\* adds N+1 points to each of the five arrays (the start point takes the
\* place of the previous last point), and a pair that ends a layer adds N+3.
C9_SubdivisionCount ==
    [][(pc = "interp" /\ pc' \in {"interp", "dwell"} /\ x_out' # x_out) =>
         LET add == IF IsJump(i', j, z_posl) THEN config.interval + 3
                    ELSE config.interval + 1
         IN  /\ Len(x_out') = Len(x_out) + add
             /\ Len(y_out') = Len(y_out) + add
             /\ Len(z_out') = Len(z_out) + add
             /\ Len(t_out') = Len(t_out) + add
             /\ Len(power_out') = Len(power_out) + add
             /\ x_out'[Len(x_out)] = At(x, i' - 1) * XScale(config)
             /\ x_out'[Len(x_out) + config.interval + 1]
                    = At(x, i') * XScale(config)]_vars

\* the interpolation of three vertices at the largest interval, the first
\* pair ending a layer and the second not
C9_Witness ==
    /\ pc = "dwell"
    /\ config.interval = MaxInterval
    /\ Len(x) = 3
    /\ jump_at = <<config.interval + 2>>

\* "G1 Z0", "G1 Z0", "G1 F60 X0 Y0", "G1 X1 Y0 E1"
MinimalProgram == <<LineZ, LineZ, LineT, LineD>>

\* C10: the 2-vertex, 1-layer, interval = 0 program with the vertices
\* (0,0,0) and (1,0,0) at a depositing feed with speed v gives exactly two
\* points, (t=0, 0, 0, 0, power) and (t=1/v, 1, 0, 0, power).
C10_MinimalRoundTrip ==
    ( /\ gcode = MinimalProgram
      /\ config.interval = 0
      /\ ~GroupFlag(config)
      /\ pc = "dwell" \/ (pc \in PostDwell /\ ~config.roller) ) =>
        LET sec == config.layer_groups[1].infill
        IN  /\ x_out = <<0, 1 * XScale(config)>>
            /\ y_out = <<0, 0>>
            /\ z_out = <<0, 0>>
            /\ power_out = <<sec.power, sec.power>>
            /\ Len(t_out) = 2
            /\ t_out[1] = 0
            /\ t_out[2] * SectionSpeed(sec) = 1 * TScale(config)

\* the minimal program run to its end at speed 2, both rows written
C10_Witness ==
    /\ pc = "done"
    /\ gcode = MinimalProgram
    /\ config.interval = 0
    /\ ~GroupFlag(config)
    /\ ~config.roller
    /\ SectionSpeed(config.layer_groups[1].infill) = 2
    /\ Len(out_main) = 2

----------------------------------------------------------------------------
(* Properties of the configuration check, the reader and perturb.          *)

\* C6: with roller and dwell enabled, a w_dwell larger than the
\* interlayer_dwell of any layer group aborts the run before any g-code is
\* read; a w_dwell equal to or less than every interlayer_dwell passes the
\* check.
C6_RollerDwellBound ==
    (config.roller /\ config.dwell) =>
        IF \E k \in 1..Len(config.layer_groups) :
               config.w_dwell > config.layer_groups[k].interlayer_dwell
        THEN /\ pc \in {"config", "aborted"}
             /\ pc = "aborted" => err \in {"w_dwell", "w_dwell_all"}
             /\ gcode = <<>> /\ x = <<>> /\ z = <<>>
             /\ out_main = <<>> /\ out_roller = <<>> /\ out_ts = <<>>
        ELSE err \notin {"w_dwell", "w_dwell_all", "dwell_required"}

\* the run aborted for the second group's dwell alone
C6_Witness ==
    /\ pc = "aborted"
    /\ config.roller /\ config.dwell
    /\ Len(config.layer_groups) = 2
    /\ config.w_dwell <= config.layer_groups[1].interlayer_dwell
    /\ config.w_dwell > config.layer_groups[2].interlayer_dwell

\* the feed in force after the first n lines read: the value of the last F
\* token, -1 when there is none
RECURSIVE ActiveFeed(_, _)
ActiveFeed(lines, n) ==
    IF n <= 0 THEN -1
    ELSE LET fs == {k \in 1..Len(lines[n]) : lines[n][k].k = "F"}
         IN  IF fs = {} THEN ActiveFeed(lines, n - 1)
             ELSE lines[n][CHOOSE k \in fs : \A m \in fs : m <= k].v

\* line n read is a depositing move (X and E) while the feed in force is
\* neither nominal value
UnexpectedFeed(n) ==
    /\ CountLetter(gcode[n], "X") > 0
    /\ CountLetter(gcode[n], "E") > 0
    /\ ActiveFeed(gcode, n) \notin {-1, InfillFVal(config), ContourFVal(config)}

\* C7: a g-code line with both X and E tokens, while the feed in force is
\* neither nominal value, ends the run during parsing: exit() at the feed
\* test, or a NameError before it when no feed or no layer group was set
\* yet; no primary, roller or time-series output is produced.
C7_UnexpectedFeedAborts ==
    \A n \in 1..Len(gcode) :
        UnexpectedFeed(n) =>
            /\ n = Len(gcode)
            /\ \/ pc = "aborted" /\ err = "unexpected_F"
               \/ /\ pc = "crashed" /\ err = "NameError"
                  /\ \/ ActiveFeed(gcode, n - 1) = -1
                     \/ GroupFlag(config) /\ ZTokens(gcode, n) = 0
            /\ x_out = <<>>
            /\ out_main = <<>> /\ out_roller = <<>> /\ out_ts = <<>>

\* exit() at a depositing move at F30, after a layer of valid moves, in a
\* run that would write all three outputs
C7_Witness ==
    /\ pc = "aborted" /\ err = "unexpected_F"
    /\ config.roller /\ config.time_series
    /\ Len(gcode) >= 4
    /\ UnexpectedFeed(Len(gcode))
    /\ Len(x) >= 2

----------------------------------------------------------------------------
(* Properties of the roller series.                                        *)

PostRoller == {"fluct", "wmain", "wroller", "wts", "done"}

\* C11: the roller series consists of on/off pairs: one pair per layer jump
\* plus one boundary pair at the very start and one at the very end of the
\* build (number of jumps + 2 pairs), the last anchored at the final
\* timestamp of the primary series.
C11_RollerPairs ==
    (pc \in PostRoller /\ config.roller /\ config.dwell) =>
        /\ Len(t_wiper) = 2 * (Len(jump_at) + 2)
        /\ Len(z_wiper) = Len(t_wiper)
        /\ t_wiper[Len(t_wiper)] = t_out[Len(t_out)]

\* C12: with roller and dwell enabled, the roller pair of layer jump k is
\* (T_k - w_dwell, T_k), T_k being the timestamp of the primary series at
\* LayerJumpIndex[k] after all dwell shifts; the start pair is
\* (t[0] - w_dwell, t[0]) with t[0] the shifted first timestamp.
C12_RollerPairTimes ==
    (pc \in PostRoller /\ config.roller /\ config.dwell) =>
        LET w == config.w_dwell * TScale(config)
        IN  /\ Len(t_wiper) = 2 * (Len(z_inc_arr) + 1)
            /\ t_wiper[1] = t_out[1] - w
            /\ t_wiper[2] = t_out[1]
            /\ \A k \in 1..Len(z_inc_arr) :
                   /\ t_wiper[2 * k + 1] = PyAt(t_out, z_inc_arr[k]) - w
                   /\ t_wiper[2 * k + 2] = PyAt(t_out, z_inc_arr[k])

\* a finished run with the roller, a layer jump recorded at its second
\* point and a dwell shift applied to the series
C12_Witness ==
    /\ pc = "done"
    /\ config.roller /\ config.dwell
    /\ Len(jump_at) >= 1
    /\ Len(z_inc_arr) >= 1
    /\ z_inc_arr[1] = jump_at[1] + 1
    /\ t_out[Len(t_out)] > t_interp[Len(t_out)] + config.w_dwell * TScale(config)
    /\ Len(out_roller) = 4

----------------------------------------------------------------------------
(* Properties of the layer group resolution.                               *)

\* the layer of vertex n (0-based) as the reader counts it: the number of
\* Z tokens read before the vertex, less one (l. 357, 361)
VertexLayer(zposl, n) ==
    Cardinality({k \in 1..Len(zposl) : zposl[k] <= n}) - 1

\* the groups whose configured 'layers' range [first, last] contains layer L
ConfiguredGroups(cfg, L) ==
    {k \in 1..Len(cfg.layer_groups) :
        /\ cfg.layer_groups[k].layers[1] <= L
        /\ L <= cfg.layer_groups[k].layers[2]}

ConfiguredGroup(cfg, L) ==
    cfg.layer_groups[CHOOSE k \in ConfiguredGroups(cfg, L) : TRUE]

\* iteration i' of the interpolation loop has just been carried out
SegmentDone ==
    /\ pc = "interp"
    /\ pc' \in {"interp", "dwell"}
    /\ Len(x_out') > Len(x_out)

\* the speed and the power of group g that belong to the feed fv
FeedSpeed(cfg, g, fv) ==
    IF fv = InfillFVal(cfg) THEN SectionSpeed(g.infill)
    ELSE SectionSpeed(g.contour)

FeedPower(cfg, g, fv) ==
    IF fv = InfillFVal(cfg) THEN g.infill.power ELSE g.contour.power

\* C13: with layer grouping active, when the layer group changes between
\* the start vertex and the end vertex of a segment, both the velocity that
\* times the segment and the power assigned to it are those of the new
\* (end-vertex) group.
C13_NewGroupApplies ==
    [][(SegmentDone /\ GroupFlag(config)) =>
         LET n  == i'
             ls == VertexLayer(z_posl, n - 1)
             le == VertexLayer(z_posl, n)
             fv == At(f, n)
         IN  ( /\ ConfiguredGroups(config, ls) # {}
               /\ ConfiguredGroups(config, le) # {}
               /\ ConfiguredGroup(config, ls) # ConfiguredGroup(config, le)
               /\ fv \in {InfillFVal(config), ContourFVal(config)} ) =>
                 LET g == ConfiguredGroup(config, le)
                 IN  /\ vel' = FeedSpeed(config, g, fv)
                     /\ At(power, n) \in {0, FeedPower(config, g, fv)}]_vars

----------------------------------------------------------------------------
(* Two runs of the script on the same g-code file: the first with a single *)
(* layer group without a 'layers' key, the second with the same group      *)
(* declared with a 'layers' range that covers every layer.                 *)

\* the configuration with 'layers': [1, last] added to its single group
Layered(cfg, last) ==
    [cfg EXCEPT !.layer_groups =
        <<[cfg.layer_groups[1] EXCEPT !.has_layers = TRUE,
                                      !.layers = <<1, last>>]>>]

EquivConfigs ==
    {Cfg(n, m[1], m[2], m[3], FALSE, 0, OneGroup(v, 2)) :
        n \in 0..MaxInterval, m \in DwellModes, v \in Speeds}

InitEquiv == InitWith(EquivConfigs)

\* what a run has produced when it ends
RunResult ==
    [done |-> TRUE, gcode |-> gcode, pc |-> pc, x_out |-> x_out,
     y_out |-> y_out, z_out |-> z_out, power_out |-> power_out,
     t_out |-> t_out, t_interp |-> t_interp, t_wiper |-> t_wiper,
     z_wiper |-> z_wiper, out_main |-> out_main, out_roller |-> out_roller]

\* the script is started again with the configuration cfg (l. 172-339)
RestartWith(cfg) ==
    /\ config' = cfg
    /\ pc' = "config"
    /\ err' = ""
    /\ bound' = IF GroupFlag(cfg) THEN {} ELSE SingleGroupNames
    /\ x' = <<>> /\ y' = <<>> /\ z' = <<>> /\ f' = <<>>
    /\ z_posl' = <<>> /\ power' = <<>> /\ z_pos' = 0
    /\ curr_f' = 0 /\ group_idx' = 0
    /\ infill_power' =
         IF GroupFlag(cfg) THEN 0 ELSE cfg.layer_groups[1].infill.power
    /\ contour_power' =
         IF GroupFlag(cfg) THEN 0 ELSE cfg.layer_groups[1].contour.power
    /\ interlayer_dwell' =
         IF GroupFlag(cfg) THEN 0 ELSE cfg.layer_groups[1].interlayer_dwell
    /\ infill_speed' =
         IF GroupFlag(cfg) THEN 0 ELSE SectionSpeed(cfg.layer_groups[1].infill)
    /\ contour_speed' =
         IF GroupFlag(cfg) THEN 0 ELSE SectionSpeed(cfg.layer_groups[1].contour)
    /\ vel' = 0
    /\ z_coord' = 0 /\ j' = 0 /\ i' = 0 /\ time' = 0
    /\ x_out' = <<>> /\ y_out' = <<>> /\ z_out' = <<>>
    /\ power_out' = <<>> /\ t_out' = <<>>
    /\ z_inc_arr' = <<>>
    /\ t_roller' = <<>> /\ z_roller' = <<>>
    /\ t_wiper' = <<>> /\ z_wiper' = <<>>
    /\ out_main' = <<>> /\ out_roller' = <<>> /\ out_ts' = <<>>
    /\ gcode' = <<>>
    /\ jump_at' = <<>> /\ t_interp' = <<>> /\ power_in' = <<>>

Ended == pc \in {"done", "aborted", "crashed"}

\* the first run has ended; the second run starts on the same file
Rerun ==
    /\ Ended
    /\ ~first_run.done
    /\ first_run' = RunResult
    /\ RestartWith(Layered(config, MaxZ))

\* a line of the file: any line in the first run, the line the first run
\* read at this place in the second
FileLine ==
    IF first_run.done
    THEN /\ Len(gcode) < Len(first_run.gcode)
         /\ ReadLine(first_run.gcode[Len(gcode) + 1], MaxX, MaxZ)
    ELSE \E line \in MainLines : ReadLine(line, MaxX, MaxZ)

\* the end of the file, in the second run where the first run's file ends
FileEnd ==
    /\ first_run.done => Len(gcode) = Len(first_run.gcode)
    /\ EndOfFile

NextEquiv ==
    \/ ConfigCheck
    \/ FileLine
    \/ FileEnd
    \/ InterpInit
    \/ InterpStep
    \/ DwellStage
    \/ RollerStage
    \/ FluctStage
    \/ WriteMain
    \/ WriteRoller
    \/ WriteTimeSeries
    \/ Rerun

SpecEquiv == InitEquiv /\ [][NextEquiv]_vars

\* whether the ended run produced what the first run produced
SameAsFirstRun ==
    /\ (pc = "done") = (first_run.pc = "done")
    /\ x_out = first_run.x_out
    /\ y_out = first_run.y_out
    /\ z_out = first_run.z_out
    /\ power_out = first_run.power_out
    /\ t_interp = first_run.t_interp
    /\ t_out = first_run.t_out
    /\ t_wiper = first_run.t_wiper
    /\ z_wiper = first_run.z_wiper
    /\ out_main = first_run.out_main
    /\ out_roller = first_run.out_roller

\* C14: a configuration with one layer group and no 'layers' key produces
\* the same primary series, the same dwell shifts and the same roller
\* series as the same group declared with a 'layers' range that covers
\* every layer of the build.
C14_SingleGroupEquivalence ==
    (first_run.done /\ Ended) => SameAsFirstRun

----------------------------------------------------------------------------
(* Properties of the reader's classification of moves.                     *)

\* a movement line has just been read without an exception
LineRead ==
    /\ pc = "read"
    /\ Len(gcode') = Len(gcode) + 1
    /\ pc' # "crashed"

\* C15: every movement line that carries an X token and no E token is a
\* non-depositing travel move: the power recorded for its vertex is 0,
\* whatever else the line contains.
C15_TravelPowerZero ==
    [][( /\ LineRead
         /\ CountLetter(gcode'[Len(gcode')], "X") > 0
         /\ CountLetter(gcode'[Len(gcode')], "E") = 0 ) =>
           /\ pc' = "read"
           /\ power' = Append(power, 0)]_vars

----------------------------------------------------------------------------
(* Properties of the layer jump indices.                                   *)

\* z_inc_arr has been computed (l. 470-472)
HasZIncArr == pc \in PostDwell /\ (config.dwell \/ config.time_series)

\* the smaller of two numbers
Min(a, b) == IF a <= b THEN a ELSE b

\* C16 (as stated): each LayerJumpIndex entry (z_inc_arr) is the index in
\* the primary series of the first of the two points appended for that
\* layer jump, the point whose z is still the old layer's z.
C16_FirstJumpPoint ==
    HasZIncArr =>
        \A k \in 1..Min(Len(jump_at), Len(z_inc_arr)) :
            z_inc_arr[k] = jump_at[k]

\* C16 (amended): for every layer jump the interpolation inserts, the entry
\* of z_inc_arr is the index of the second of the two appended points, the
\* point whose z is already raised by layer_height.
C16_SecondJumpPoint ==
    HasZIncArr =>
        \A k \in 1..Len(jump_at) :
            /\ k <= Len(z_inc_arr)
            /\ z_inc_arr[k] = jump_at[k] + 1
            /\ At(z_out, z_inc_arr[k])
                   = At(z_out, jump_at[k]) + config.layer_height

\* a finished run with dwell and two layer jumps, both recorded
C16_Witness ==
    /\ pc = "done"
    /\ config.dwell
    /\ Len(jump_at) = 2
    /\ Len(z_inc_arr) = 2
    /\ config.interval >= 1

\* C17: for every input program, the LayerJumpIndex list (z_inc_arr) has
\* exactly one entry per layer jump that the interpolation inserted, in
\* order, and each entry indexes a point of that jump; also when two Z
\* tokens occur with no X token between them or a layer boundary falls on
\* vertex 0.
C17_OneEntryPerJump ==
    HasZIncArr =>
        /\ Len(z_inc_arr) = Len(jump_at)
        /\ \A k \in 1..Len(z_inc_arr) :
               z_inc_arr[k] \in {jump_at[k], jump_at[k] + 1}

----------------------------------------------------------------------------
(* Properties of the parameters applied per layer.                         *)

\* C18: with layer grouping active and contiguous configured ranges, for
\* every layer L inside the ranges the speed that times a segment of layer
\* L and the power assigned to a depositing move of layer L come from the
\* same layer group, the group whose configured range contains L.
C18_LayerParameters ==
    [][(SegmentDone /\ GroupFlag(config)) =>
         LET n  == i'
             L  == VertexLayer(z_posl, n)
             fv == At(f, n)
         IN  ( /\ ConfiguredGroups(config, L) # {}
               /\ fv \in {InfillFVal(config), ContourFVal(config)} ) =>
                 /\ vel' = FeedSpeed(config, ConfiguredGroup(config, L), fv)
                 /\ At(power, n) \in
                        {0, FeedPower(config, ConfiguredGroup(config, L), fv)}]_vars

\* the dwell shift the sample at index n (0-based) has received
ShiftAt(n) == At(t_out, n) - At(t_interp, n)

\* C19: with layer grouping and dwell active, the dwell added at the layer
\* jump that ends layer L is the interlayer_dwell of the layer group whose
\* configured range contains L, for every layer L, the first layer of
\* each group after the first included.
C19_LayerDwell ==
    (pc \in PostDwell /\ config.dwell /\ GroupFlag(config)) =>
        \A L \in 1..Len(jump_at) :
            ConfiguredGroups(config, L) # {} =>
                ShiftAt(jump_at[L] + 1) - ShiftAt(jump_at[L] - 1)
                    = ConfiguredGroup(config, L).interlayer_dwell
                          * TScale(config)

\* the speeds of the group resolved for the iteration (l. 393-412)
ResolvedSpeeds ==
    IF GroupFlag(config)
    THEN GroupSpeeds(config, GetIdxFromRanges(j - 2, Intervals(config)))
    ELSE [infill |-> infill_speed, contour |-> contour_speed]

\* C20: every segment's traversal time is its planar length divided by a
\* speed of the group resolved for the segment: the infill speed when the
\* end vertex's feed is the nominal infill feed, the contour speed when it
\* is the nominal contour feed; no segment, a travel segment whose feed is
\* neither value included, is timed with another or an undefined speed.
C20_SegmentSpeed ==
    [][pc = "interp" =>
         /\ ~(pc' = "crashed" /\ err' = "NameError")
         /\ SegmentDone =>
              LET fv == At(f, i')
                  sp == ResolvedSpeeds
              IN  /\ fv = InfillFVal(config) => vel' = sp.infill
                  /\ fv = ContourFVal(config) => vel' = sp.contour
                  /\ vel' \in {sp.infill, sp.contour}]_vars

----------------------------------------------------------------------------
(* The run on programs whose lines differ in shape: an F token after the   *)
(* X token of a depositing line, an X token without a Y token, and a Z    *)
(* line with a comment.                                                    *)

\* "G1 X1 Y0 E1 F120", "G1 F60 X1" and "G1 Z0 ;NEXT"
LineDL == <<Tok("X", 1), Tok("Y", 0), Tok("E", 1), Tok("F", 120)>>
LineX  == <<Tok("F", 60), Tok("X", 1)>>
LineZN == <<Tok("Z", 0), Word("NEXT")>>
ShapeLines == MainLines \cup {LineDL, LineX, LineZN}

ShapeConfigs ==
    {Cfg(0, FALSE, FALSE, 0, FALSE, 0, OneGroup(1, 2)),
     Cfg(1, TRUE, TRUE, 1, FALSE, 0, OneGroup(2, 2)),
     Cfg(0, TRUE, FALSE, 0, FALSE, 0, TwoGroups(TRUE, 2, 3))}

InitShape == InitWith(ShapeConfigs)

NextShape ==
    \/ ConfigCheck
    \/ \E line \in ShapeLines : ReadLine(line, MaxParseX, MaxParseZ)
    \/ EndOfFile
    \/ InterpInit
    \/ InterpStep
    \/ DwellStage
    \/ RollerStage
    \/ FluctStage
    \/ WriteMain
    \/ WriteRoller
    \/ WriteTimeSeries

SpecShape == InitShape /\ [][NextShape]_vars

----------------------------------------------------------------------------
(* Properties of the arrays the reader fills.                              *)

\* C21: for every depositing vertex the feed stored for it in f[], which
\* selects the velocity of its segment, is the feed that selected its
\* power bucket (the feed in force when the line has been scanned),
\* wherever the F token stands on the line.
C21_FeedOfPower ==
    [][( /\ LineRead
         /\ pc' = "read"
         /\ CountLetter(gcode'[Len(gcode')], "X") = 1
         /\ CountLetter(gcode'[Len(gcode')], "E") > 0 ) =>
           /\ Len(f') = Len(f) + 1
           /\ f'[Len(f')] = curr_f']_vars

\* C22: after any sequence of movement lines has been read, x[], y[], f[]
\* and power[] have the same length, one entry per vertex.
C22_ParallelArrays ==
    pc \in {"read", "init"} =>
        /\ Len(y) = Len(x)
        /\ Len(f) = Len(x)
        /\ Len(power) = Len(x)

----------------------------------------------------------------------------
(* Properties of the primary series as a whole.                            *)

\* the output arrays exist (l. 384-388) and the run has not stopped
HasSeries == pc \in {"interp"} \cup PostInterp

\* C23: after every interpolated segment and every inserted layer jump the
\* five primary arrays t, x, y, z and power have equal length.
C23_EqualLengths ==
    HasSeries =>
        /\ Len(x_out) = Len(t_out)
        /\ Len(y_out) = Len(t_out)
        /\ Len(z_out) = Len(t_out)
        /\ Len(power_out) = Len(t_out)

\* a segment has been interpolated and a layer jump inserted after it, and
\* a further segment has followed
C23_Witness ==
    /\ pc = "dwell"
    /\ config.interval >= 1
    /\ Len(jump_at) = 1
    /\ Len(t_out) > jump_at[1] + 2
    /\ Len(power_out) = Len(t_out)

----------------------------------------------------------------------------
(* Properties of the roller series as a whole.                             *)

\* the roller timestamps are non-decreasing and start at 0
RollerOrdered ==
    /\ t_wiper[1] = 0
    /\ \A k \in 1..(Len(t_wiper) - 1) : t_wiper[k] <= t_wiper[k + 1]

\* the roller window of every inserted layer jump lies in the jump's dwell
\* gap: between the shifted timestamps of the two points of the jump
RollerInGap ==
    \A k \in 1..Len(jump_at) :
        /\ 2 * k + 2 <= Len(t_wiper)
        /\ t_wiper[2 * k + 1] >= At(t_out, jump_at[k])
        /\ t_wiper[2 * k + 2] = At(t_out, jump_at[k] + 1)

\* C24: with roller and dwell enabled, the roller timestamps are
\* non-decreasing and start at 0, and the roller window of each layer jump
\* lies inside that jump's dwell gap: it starts no earlier than the shifted
\* timestamp of the last point of the finished layer and ends exactly at
\* the shifted timestamp of the first point at the new height.
C24_RollerInDwellGap ==
    (pc \in PostRoller /\ config.roller /\ config.dwell) =>
        RollerOrdered /\ RollerInGap

\* the roller event series has been written (l. 539-549)
RollerWritten == pc \in {"wts", "done"} /\ config.roller

\* C25: the written roller rows alternate state strictly 1, 0, 1, 0, ...
\* starting with 1 (engaged) at row 0; the number of rows is even, every
\* row has a timestamp, and the two rows of a pair carry the same z.
C25_RollerRows ==
    RollerWritten =>
        /\ Len(out_roller) % 2 = 0
        /\ Len(out_roller) = Len(t_wiper)
        /\ \A k \in 1..Len(out_roller) :
               /\ out_roller[k][1] \in Int
               /\ out_roller[k][5] = (IF k % 2 = 1 THEN 1 ELSE 0)
        /\ \A k \in 1..(Len(out_roller) \div 2) :
               out_roller[2 * k - 1][4] = out_roller[2 * k][4]

\* a roller series written after a layer jump: two pairs at two heights
C25_Witness ==
    /\ RollerWritten
    /\ Len(jump_at) = 1
    /\ Len(out_roller) = 4
    /\ out_roller[1][5] = 1 /\ out_roller[2][5] = 0
    /\ out_roller[3][4] > out_roller[2][4]

----------------------------------------------------------------------------
(* The run with the time series requested, for every number of sample      *)
(* points up to MaxPoints.                                                 *)

MaxPoints == 3

SeriesConfigs ==
    {Cfg(n, m[1], m[2], m[3], TRUE, tsp, OneGroup(1, 2)) :
        n \in 0..1, m \in DwellModes, tsp \in 0..MaxPoints}

InitSeries == InitWith(SeriesConfigs)

NextSeries ==
    \/ ConfigCheck
    \/ \E line \in MainLines : ReadLine(line, MaxX, MaxZ)
    \/ EndOfFile
    \/ InterpInit
    \/ InterpStep
    \/ DwellStage
    \/ RollerStage
    \/ FluctStage
    \/ WriteMain
    \/ WriteRoller
    \/ WriteTimeSeries

SpecSeries == InitSeries /\ [][NextSeries]_vars

\* the rows written for one layer besides its sample points: the roller
\* anchor when the roller is on, the power-on and the power-off timestamp
\* (l. 557-559, 577, 616-619, 623)
LayerFrame(cfg) == (IF cfg.roller THEN 1 ELSE 0) + 2

\* C26: when the time series is requested with time_series_sample_points
\* = N, exactly N timestamps are emitted for every layer between the
\* layer's power-on and its power-off timestamp, for every N >= 0.
C26_SamplePoints ==
    (pc = "done" /\ config.time_series) =>
        Len(out_ts) = (Len(z_inc_arr) + 1)
                        * (LayerFrame(config) + config.time_series_sample_points)

----------------------------------------------------------------------------
(* perturb of AMTech.py (l. 52-78) and of AM_Tech.py (l. 61-90) applied to *)
(* bounded power arrays.                                                   *)

\* perturb of AMTech.py for the draws rnd: vals = draws * dev for the three
\* schemes, zeros for any other type; arr + vals is returned
AMTechPerturb(arr, dev, type, rnd) ==
    LET vals == IF type \in {"gaussian", "strict", "uniform"}
                THEN [k \in 1..Len(arr) |-> rnd[k] * dev]
                ELSE [k \in 1..Len(arr) |-> 0]
    IN  [k \in 1..Len(arr) |-> arr[k] + vals[k]]

\* perturb of AM_Tech.py: the same, with zeros for the type 'none' and the
\* scalar 0 of l. 72 for every other type
AM_TechPerturb(arr, dev, type, rnd) ==
    LET vals == IF type \in {"gaussian", "strict", "uniform"}
                THEN [k \in 1..Len(arr) |-> rnd[k] * dev]
                ELSE IF type = "none" THEN [k \in 1..Len(arr) |-> 0]
                ELSE [k \in 1..Len(arr) |-> 0 * arr[k]]
    IN  [k \in 1..Len(arr) |-> arr[k] + vals[k]]

AMTechCall ==
    /\ pc = "fluct"
    /\ \E type \in SchemeTags :
         \E rnd \in [1..Len(power_out) -> Draws(type)] :
             power_out' = AMTechPerturb(power_out, config.deviation, type, rnd)
    /\ pc' = "AMTech_returned"
    /\ UNCHANGED <<config, err, bound, readerVars, paramVars, z_coord, j, i,
                   time, x_out, y_out, z_out, t_out, z_inc_arr, rollerVars,
                   outVars, histVars>>

AM_TechCall ==
    /\ pc = "fluct"
    /\ \E type \in SchemeTags :
         \E rnd \in [1..Len(power_out) -> Draws(type)] :
             power_out' = AM_TechPerturb(power_out, config.deviation, type, rnd)
    /\ pc' = "AM_Tech_returned"
    /\ UNCHANGED <<config, err, bound, readerVars, paramVars, z_coord, j, i,
                   time, x_out, y_out, z_out, t_out, z_inc_arr, rollerVars,
                   outVars, histVars>>

NextTech ==
    \/ AMTechCall
    \/ AM_TechCall

SpecTech == InitPerturb /\ [][NextTech]_vars

\* C27: perturb in AMTech.py and in AM_Tech.py never perturbs a sample
\* whose power is 0: for every scheme and every index i with input
\* power[i] = 0, the returned power[i] = 0.
C27_TechZeroStaysZero ==
    pc \in {"AMTech_returned", "AM_Tech_returned"} =>
        /\ Len(power_out) = Len(power_in)
        /\ \A k \in 1..Len(power_in) : power_in[k] = 0 => power_out[k] = 0

----------------------------------------------------------------------------
(* Frame properties of the stages after the interpolation.                 *)

\* the stages that read z_inc_arr: roller derivation, and the writers up to
\* the time series (l. 491-623)
ReadsZIncArr == {"roller", "fluct", "wmain", "wroller", "wts"}

\* C28: the LayerJumpIndex list (z_inc_arr) is computed once, from
\* positions_per_layer (z_posl) and interval only, before any timestamp is
\* shifted; dwell injection, roller derivation and time series sampling
\* read it without changing it, and dwell injection changes only the t
\* column, leaving x, y, z and power unchanged.
C28_JumpIndexFrame ==
    [][ /\ (z_inc_arr' # z_inc_arr) =>
              /\ pc = "dwell"
              /\ z_inc_arr = <<>>
              /\ t_out = t_interp
              /\ Len(z_inc_arr') = Len(z_posl) - 2
              /\ \A k \in 1..Len(z_inc_arr') :
                     z_inc_arr'[k] = (z_posl[k + 2] - 1) * (config.interval + 1)
                                         + 2 * k
        /\ pc \in ReadsZIncArr => z_inc_arr' = z_inc_arr
        /\ pc = "dwell" =>
              /\ x_out' = x_out /\ y_out' = y_out /\ z_out' = z_out
              /\ power_out' = power_out
              /\ Len(t_out') = Len(t_out) ]_vars

\* a finished run with dwell, roller and time series: the list was
\* computed, the timestamps were shifted and all three readers have run
C28_Witness ==
    /\ pc = "done"
    /\ config.dwell /\ config.roller /\ config.time_series
    /\ Len(z_inc_arr) >= 1
    /\ Len(jump_at) >= 1
    /\ t_out # t_interp
    /\ Len(out_roller) > 0
    /\ Len(out_ts) > 0
    /\ \E k \in 1..Len(power_out) : power_out[k] # 0

----------------------------------------------------------------------------
(* The run on programs whose Z tokens carry different values.              *)

\* "G1 Z1"
LineZ1 == <<Tok("Z", 1)>>
HeightLines == MainLines \cup {LineZ1}

HeightConfigs ==
    {Cfg(0, FALSE, FALSE, 0, FALSE, 0, OneGroup(1, 2)),
     Cfg(1, TRUE, TRUE, 1, FALSE, 0, OneGroup(2, 2)),
     Cfg(0, TRUE, FALSE, 0, FALSE, 0, TwoGroups(TRUE, 2, 3))}

InitHeight == InitWith(HeightConfigs)

NextHeight ==
    \/ ConfigCheck
    \/ \E line \in HeightLines : ReadLine(line, MaxParseX, MaxParseZ)
    \/ EndOfFile
    \/ InterpInit
    \/ InterpStep
    \/ DwellStage
    \/ RollerStage
    \/ FluctStage
    \/ WriteMain
    \/ WriteRoller
    \/ WriteTimeSeries

SpecHeight == InitHeight /\ [][NextHeight]_vars

\* the number of layer jumps inserted before the point at index m (0-based)
\* or at it: the jumps whose raised point is at or before m
JumpsBefore(m) == Cardinality({k \in 1..Len(jump_at) : jump_at[k] + 1 <= m})

\* C29: every z of the primary series equals the value of the second Z
\* token of the program plus layer_height times the number of layer jumps
\* inserted before that point; the values of all other Z tokens never
\* influence the output.
C29_HeightOfSeries ==
    HasSeries =>
        \A m \in 0..(Len(z_out) - 1) :
            At(z_out, m) = At(z, 1) + config.layer_height * JumpsBefore(m)

\* a series with a layer jump, from a program whose first and third Z
\* tokens differ from the second
C29_Witness ==
    /\ pc = "done"
    /\ Len(z) = 3
    /\ At(z, 0) # At(z, 1)
    /\ At(z, 2) # At(z, 1)
    /\ Len(jump_at) = 1
    /\ At(z_out, Len(z_out) - 1) = At(z, 1) + config.layer_height
    /\ Len(out_main) = Len(z_out)

----------------------------------------------------------------------------
(* Properties of the group lookup.                                         *)

\* the reader has resolved the group of the last Z token (l. 357)
GroupResolved ==
    /\ pc = "read"
    /\ GroupFlag(config)
    /\ "group_idx" \in bound

\* C30: get_idx_from_ranges scans the ranges in declaration order and
\* returns the index of the first range containing the layer index, so
\* when two ranges contain the same index the earlier-declared group wins.
C30_FirstRangeWins ==
    GroupResolved =>
        LET num    == Len(z) - 1
            ranges == Intervals(config)
        IN  (\E k \in 1..Len(ranges) : num \in ranges[k]) =>
                /\ group_idx \in 0..(Len(ranges) - 1)
                /\ num \in ranges[group_idx + 1]
                /\ \A k \in 1..group_idx : num \notin ranges[k]

\* two Z tokens read with the groups declared in descending order: the
\* index 1 is in both ranges and the group declared first, [2,2], is taken
C30_Witness ==
    /\ GroupResolved
    /\ Len(config.layer_groups) = 2
    /\ config.layer_groups[1].layers = <<2, 2>>
    /\ Len(z) = 2
    /\ \A k \in 1..2 : (Len(z) - 1) \in Intervals(config)[k]
    /\ group_idx = 0

====
